---- MODULE Spec2Model ----
(***************************************************************************)
(* Camera selection and brightness streaming (capture.py, main.py,         *)
(* image_processing.py, TCP_client.py).                                    *)
(*                                                                         *)
(* The program is single threaded.  Its state is the control position      *)
(* (pc plus the stack of return sites), the local variables of the active  *)
(* functions, the set of capture handles that are currently open, the      *)
(* socket and the clock.  The capture driver, the keyboard and the network *)
(* are the environment: every open, read, key poll, connect and write      *)
(* draws its outcome nondeterministically.                                 *)
(***************************************************************************)
EXTENDS Integers, Sequences, FiniteSets, TLC

(***************************************************************************)
(* Bounds of the model.                                                    *)
(***************************************************************************)
\* largest max_index a direct call of interactive_camera_selection is given
MaxIndex == 4
\* number of indices probed when main() runs (main.py passes max_index=10)
MainMaxIndex == 2
\* number of 'next' key presses followed in one selection
MaxAdvances == 3
\* clock ticks followed during streaming
MaxTime == 5
\* clock ticks per second
TicksPerSecond == 2
\* pixels per frame in the brightness reduction
MaxPixels == 2

(***************************************************************************)
(* Program constants.                                                      *)
(***************************************************************************)
KeyQ == 113
KeyN == 110
KeyS == 115
KeyMask == 256
NoKey == 255
DefaultFps == 30
ChannelMax == 255
SampleBytes == 4
\* Python's None where an integer is expected
NoneVal == 0 - 1
\* "no value yet" for a variable that is not bound yet
Unset == 0 - 2

VARIABLES
    pc,                \* control position inside the active function
    stack,             \* return sites of the active calls, innermost last
    max_index,         \* argument max_index of the active call
    start_index,       \* argument start_index of interactive_camera_selection
    i,                 \* list_working_cameras: loop index
    working,           \* list_working_cameras: list of (index, w, h, fps)
    handles,           \* open capture handles, a sequence of <<owner, device index>>
    cameras,           \* main: result of its own scan
    cams,              \* interactive_camera_selection: result of its scan
    available_indices, \* interactive_camera_selection
    current_idx,       \* interactive_camera_selection: cursor
    camera_idx,        \* show_live_view: argument camera_idx
    result,            \* value returned by show_live_view
    selected_camera,   \* value returned by interactive_camera_selection
    conn,              \* socket of main: "none", "open", "closed"
    gen,               \* generator bright_or_dark: none/created/running/suspended/finished
    intensity,         \* main: loop variable, a rational <<num, den>>
    now,               \* clock, in ticks
    last_print_time,   \* main
    bytesSent,         \* bytes written to the socket so far
    payload,           \* last byte string handed to sendall
    outcome,           \* how main() ended
    frame,             \* frame given to bright_or_dark_single_frame
    decoded,           \* value a receiver decodes from payload
    nAdv,              \* history: 'next' events handled by this selection
    initCursor,        \* history: cursor the selection started with
    lastEvent,         \* history: last input event of the selection's preview
    previewed,         \* history: devices the selection opened for preview, in order
    probeOk,           \* history: indices whose open and read succeeded in this scan
    t0                 \* history: clock value when the send loop started

vars == <<pc, stack, max_index, start_index, i, working, handles, cameras, cams,
          available_indices, current_idx, camera_idx, result, selected_camera,
          conn, gen, intensity, now, last_print_time, bytesSent, payload,
          outcome, frame, decoded, nAdv, initCursor, lastEvent, previewed,
          probeOk, t0>>

scanVars == <<i, working>>
icsVars == <<cams, available_indices, current_idx>>
streamVars == <<conn, gen, intensity, now, last_print_time, bytesSent, payload, t0>>
pureVars == <<frame, decoded>>
histVars == <<nAdv, initCursor, lastEvent, previewed, probeOk>>

(***************************************************************************)
(* Capture driver: what a device may report for width, height and fps.     *)
(* cap.get returns 0 for a property the backend does not support.          *)
(***************************************************************************)
Reports ==
    { <<640, 480, 30>>, <<640, 480, 0>>, <<0, 0, 0>> }

\* Python's `x or 0`
OrZero(x) == IF x = 0 THEN 0 ELSE x

\* the tuple list_working_cameras appends for index idx
Descriptor(idx, rep) ==
    <<idx, OrZero(rep[1]), OrZero(rep[2]), OrZero(rep[3])>>

\* get_camera_properties: the only place where fps falls back to 30.0
get_camera_properties(rep) ==
    LET w == OrZero(rep[1])
        h == OrZero(rep[2])
        fps == OrZero(rep[3])
    IN  <<w, h, IF fps < 1 THEN DefaultFps ELSE fps>>

Indices(descs) == [k \in 1..Len(descs) |-> descs[k][1]]

Push(s, site) == Append(s, site)
Top(s) == s[Len(s)]
Pop(s) == SubSeq(s, 1, Len(s) - 1)

\* s without its last occurrence of x
RECURSIVE RemoveOne(_, _)
RemoveOne(s, x) ==
    IF s = <<>> THEN <<>>
    ELSE IF s[Len(s)] = x THEN SubSeq(s, 1, Len(s) - 1)
    ELSE Append(RemoveOne(SubSeq(s, 1, Len(s) - 1), x), s[Len(s)])

\* cv2.VideoCapture(...) that opened, and cap.release()
OpenHandle(h, owner, dev) == Append(h, <<owner, dev>>)
ReleaseHandle(h, owner, dev) == RemoveOne(h, <<owner, dev>>)

(***************************************************************************)
(* list_working_cameras(max_index)                                         *)
(***************************************************************************)
\* working after the read of index idx: appended only when the read is ok
AfterReadAlways(w, idx, ok, rep) == Append(w, Descriptor(idx, rep))

AfterRead(w, idx, ok, rep) ==
    IF ok THEN Append(w, Descriptor(idx, rep)) ELSE w

\* cap = cv2.VideoCapture(i, ...); if cap.isOpened():
ScanOpen(ok) ==
    /\ pc = "scan_loop"
    /\ i < max_index
    /\ handles' = IF ok THEN OpenHandle(handles, "scan", i) ELSE handles
    /\ pc' = IF ok THEN "scan_read" ELSE "scan_release"
    /\ UNCHANGED <<stack, max_index, start_index, scanVars, cameras, icsVars,
                   camera_idx, result, selected_camera, streamVars, outcome,
                   pureVars, histVars>>

\* ok, _ = cap.read(); if ok: working.append((i, w, h, fps))
ScanRead(ok, rep) ==
    /\ pc = "scan_read"
    /\ working' = AfterRead(working, i, ok, rep)
    /\ probeOk' = IF ok THEN probeOk \cup {i} ELSE probeOk
    /\ pc' = "scan_release"
    /\ UNCHANGED <<stack, max_index, start_index, i, handles, cameras, icsVars,
                   camera_idx, result, selected_camera, streamVars, outcome,
                   pureVars, nAdv, initCursor, lastEvent, previewed>>

\* the handles after the loop body of the scan: cap.release() runs whether
\* or not the open and the read succeeded (w is the list so far)
AfterProbeReadOnly(h, w, idx) ==
    IF w # <<>> /\ w[Len(w)][1] = idx THEN ReleaseHandle(h, "scan", idx) ELSE h

AfterProbe(h, w, idx) == ReleaseHandle(h, "scan", idx)

\* cap.release(), end of the loop body
ScanRelease ==
    /\ pc = "scan_release"
    /\ handles' = AfterProbe(handles, working, i)
    /\ i' = i + 1
    /\ pc' = "scan_loop"
    /\ UNCHANGED <<stack, max_index, start_index, working, cameras, icsVars,
                   camera_idx, result, selected_camera, streamVars, outcome,
                   pureVars, histVars>>

\* return working: to main (cameras = ...) or to
\* interactive_camera_selection (cams = ...)
ScanReturn ==
    /\ pc = "scan_loop"
    /\ i >= max_index
    /\ pc' = Top(stack)
    /\ stack' = Pop(stack)
    /\ IF Top(stack) = "m_check"
       THEN cameras' = working /\ UNCHANGED cams
       ELSE cams' = working /\ UNCHANGED cameras
    /\ i' = Unset
    /\ working' = <<>>
    /\ UNCHANGED <<max_index, start_index, handles, available_indices,
                   current_idx, camera_idx, result, selected_camera, streamVars,
                   outcome, pureVars, histVars>>

(***************************************************************************)
(* show_live_view(camera_idx), always called without a key_handler         *)
(***************************************************************************)
RawKeys == {0 - 1, KeyQ, KeyN, KeyS, 120, KeyQ + KeyMask}

\* wait_for_key: key = cv2.waitKey(timeout) & 0xFF; None when key is 255
wait_for_key(raw) ==
    LET key == raw % KeyMask
    IN  IF key # NoKey THEN key ELSE NoneVal

\* the default key handling: what show_live_view returns for a key,
\* "none" when it keeps looping
DefaultKeyNoSelect(key) ==
    IF key = NoneVal THEN "none"
    ELSE IF key = KeyQ THEN "quit"
    ELSE IF key = KeyN THEN "next"
    ELSE IF key = KeyS THEN "next"
    ELSE "none"

DefaultKey(key) ==
    IF key = NoneVal THEN "none"
    ELSE IF key = KeyQ THEN "quit"
    ELSE IF key = KeyN THEN "next"
    ELSE IF key = KeyS THEN "select"
    ELSE "none"

\* who holds the handle show_live_view opens: the selection loop or the
\* final preview of main
Previewer == IF Top(stack) = "ics_result" THEN "select" ELSE "final"

InSelection == pc \in {"slv_open", "slv_loop"} /\ Top(stack) = "ics_result"

\* the input event a key stands for: the quit, next and select keys
KeyEvent(key) ==
    IF key = KeyQ THEN "quit"
    ELSE IF key = KeyN THEN "advance"
    ELSE IF key = KeyS THEN "confirm"
    ELSE "none"

\* history: the last event the selection's preview saw
EventAfter(ok, key) ==
    IF Previewer # "select" THEN lastEvent
    ELSE IF ~ok THEN "error"
    ELSE IF KeyEvent(key) # "none" THEN KeyEvent(key)
    ELSE lastEvent

\* the handle set after show_live_view handled a key with outcome r
AfterKeyKeepOnNext(h, r, owner, dev) ==
    IF r \in {"quit", "select"} THEN ReleaseHandle(h, owner, dev) ELSE h

AfterKeyKeepOnSelect(h, r, owner, dev) ==
    IF r \in {"quit", "next"} THEN ReleaseHandle(h, owner, dev) ELSE h

AfterKey(h, r, owner, dev) ==
    IF r \in {"quit", "next", "select"} THEN ReleaseHandle(h, owner, dev) ELSE h

\* the handles after a failed read_frame in the preview loop:
\* cap.release() before return 'error'
AfterReadFailureKeep(h, owner, dev) == h

AfterReadFailure(h, owner, dev) == ReleaseHandle(h, owner, dev)

\* cap = open_camera(camera_idx); if not cap: return 'error'
SlvOpen(ok) ==
    /\ pc = "slv_open"
    /\ IF ok
       THEN /\ handles' = OpenHandle(handles, Previewer, camera_idx)
            /\ pc' = "slv_loop"
            /\ previewed' = IF Previewer = "select"
                            THEN Append(previewed, camera_idx) ELSE previewed
            /\ UNCHANGED <<stack, result, lastEvent>>
       ELSE /\ result' = "error"
            /\ pc' = Top(stack)
            /\ stack' = Pop(stack)
            /\ lastEvent' = IF Previewer = "select" THEN "open_error" ELSE lastEvent
            /\ UNCHANGED <<handles, previewed>>
    /\ UNCHANGED <<max_index, start_index, scanVars, cameras, icsVars, camera_idx,
                   selected_camera, streamVars, outcome, pureVars, nAdv,
                   initCursor, probeOk>>

\* one pass of the while loop: read_frame, display, wait_for_key(1),
\* default key handling
SlvFrame(ok, raw) ==
    /\ pc = "slv_loop"
    /\ LET key == wait_for_key(raw)
           r == DefaultKey(key)
       IN  /\ lastEvent' = EventAfter(ok, key)
           /\ IF ~ok
              THEN /\ handles' = AfterReadFailure(handles, Previewer, camera_idx)
                   /\ result' = "error"
                   /\ pc' = Top(stack)
                   /\ stack' = Pop(stack)
              ELSE IF r # "none"
              THEN /\ (r = "next" /\ Previewer = "select") => nAdv < MaxAdvances
                   /\ handles' = AfterKey(handles, r, Previewer, camera_idx)
                   /\ result' = r
                   /\ pc' = Top(stack)
                   /\ stack' = Pop(stack)
              ELSE UNCHANGED <<handles, result, pc, stack>>
    /\ UNCHANGED <<max_index, start_index, scanVars, cameras, icsVars, camera_idx,
                   selected_camera, streamVars, outcome, pureVars, nAdv,
                   initCursor, previewed, probeOk>>

(***************************************************************************)
(* interactive_camera_selection(max_index, start_index)                    *)
(***************************************************************************)
Range(s) == {s[k] : k \in 1..Len(s)}

\* available_indices.index(x), 0-based
IndexOf(s, x) == (CHOOSE k \in 1..Len(s) : s[k] = x /\ \A j \in 1..(k - 1) : s[j] # x) - 1

\* current_idx before the loop
StartCursorFirst(avail, start) == 0

StartCursor(avail, start) ==
    IF start \in Range(avail) THEN IndexOf(avail, start) ELSE 0

\* if current_idx >= len(available_indices): current_idx = 0
WrapCursorNever(cur, n) == IF cur >= n THEN n - 1 ELSE cur

WrapCursor(cur, n) == IF cur >= n THEN 0 ELSE cur

\* cams = list_working_cameras(max_index=max_index)
IcsStart ==
    /\ pc = "ics_start"
    /\ i' = 0
    /\ working' = <<>>
    /\ pc' = "scan_loop"
    /\ stack' = Push(stack, "ics_check")
    /\ probeOk' = {}
    /\ UNCHANGED <<max_index, start_index, handles, cameras, icsVars, camera_idx,
                   result, selected_camera, streamVars, outcome, pureVars,
                   nAdv, initCursor, lastEvent, previewed>>

\* return value: to main (selected_camera = ...) or to the direct caller
IcsReturn(value) ==
    /\ selected_camera' = value
    /\ cams' = <<>>
    /\ available_indices' = <<>>
    /\ current_idx' = Unset
    /\ camera_idx' = Unset
    /\ result' = "none"
    /\ IF stack = <<>>
       THEN pc' = "returned" /\ UNCHANGED stack
       ELSE pc' = Top(stack) /\ stack' = Pop(stack)

\* `not cams`, `not cameras`
IsEmptyNever(c) == FALSE

IsEmpty(c) == c = <<>>

\* if not cams: return None; otherwise the list of indices and the
\* starting cursor
IcsCheck ==
    /\ pc = "ics_check"
    /\ probeOk' = {}
    /\ IF IsEmpty(cams)
       THEN /\ IcsReturn(NoneVal)
            /\ UNCHANGED initCursor
       ELSE /\ available_indices' = Indices(cams)
            /\ current_idx' = StartCursor(Indices(cams), start_index)
            /\ initCursor' = StartCursor(Indices(cams), start_index)
            /\ pc' = "ics_loop"
            /\ UNCHANGED <<stack, cams, camera_idx, result, selected_camera>>
    /\ UNCHANGED <<max_index, start_index, scanVars, handles, cameras, streamVars,
                   outcome, pureVars, nAdv, lastEvent, previewed>>

\* top of the while loop: wrap, camera_idx = available_indices[current_idx],
\* result = show_live_view(camera_idx)
IcsLoop ==
    /\ pc = "ics_loop"
    /\ current_idx' = WrapCursor(current_idx, Len(available_indices))
    /\ camera_idx' = available_indices[current_idx' + 1]
    /\ pc' = "slv_open"
    /\ stack' = Push(stack, "ics_result")
    /\ UNCHANGED <<max_index, start_index, scanVars, handles, cameras, cams,
                   available_indices, result, selected_camera, streamVars,
                   outcome, pureVars, histVars>>

\* which branch of the loop a result of show_live_view takes: 'next',
\* 'select', and the else branch for 'quit' and 'error' alike
ResultBranchSkipError(r) ==
    IF r \in {"next", "error"} THEN "next"
    ELSE IF r = "select" THEN "select"
    ELSE "break"

ResultBranch(r) ==
    IF r = "next" THEN "next"
    ELSE IF r = "select" THEN "select"
    ELSE "break"

\* the branches on result
IcsResult ==
    /\ pc = "ics_result"
    /\ IF ResultBranch(result) = "next"
       THEN /\ current_idx' = current_idx + 1
            /\ nAdv' = nAdv + 1
            /\ pc' = "ics_loop"
            /\ UNCHANGED <<stack, cams, available_indices, camera_idx, result,
                           selected_camera>>
       ELSE IF ResultBranch(result) = "select"
       THEN IcsReturn(camera_idx) /\ UNCHANGED nAdv
       ELSE IcsReturn(NoneVal) /\ UNCHANGED nAdv
    /\ UNCHANGED <<max_index, start_index, scanVars, handles, cameras, streamVars,
                   outcome, pureVars, initCursor, lastEvent, previewed, probeOk>>

(***************************************************************************)
(* image_processing: the brightness of a frame.  A frame is a non-empty    *)
(* sequence of BGR pixels <<b, g, r>> with 8-bit channels; a brightness is *)
(* the rational <<num, den>>.                                              *)
(***************************************************************************)
PixelValues == {0, 128, ChannelMax}
Pixels == PixelValues \X PixelValues \X PixelValues

\* frames of 1..n pixels
FramesUpTo(n) == UNION {[1..k -> Pixels] : k \in 1..n}

\* the frames the camera delivers while streaming: uniform black, mid-gray
\* and white
CameraFrames == {<<<<c, c, c>>>> : c \in PixelValues}

\* cv2.cvtColor(frame, cv2.COLOR_BGR2GRAY) on one 8-bit pixel: the fixed
\* point form of 0.114 B + 0.587 G + 0.299 R, rounded
GrayOf(px) == (1868 * px[1] + 9617 * px[2] + 4899 * px[3] + 8192) \div 16384

RECURSIVE SumGray(_)
SumGray(f) ==
    IF f = <<>> THEN 0 ELSE GrayOf(f[1]) + SumGray(Tail(f))

\* np.mean(gray) / 255.0
MeanOver256(f) == <<SumGray(f), Len(f) * (ChannelMax + 1)>>

MeanOver255(f) == <<SumGray(f), Len(f) * ChannelMax>>

\* the value bright_or_dark yields and bright_or_dark_single_frame returns
Brightness(f) == MeanOver255(f)

(***************************************************************************)
(* struct.pack('>f', x): IEEE-754 single precision, round to nearest even, *)
(* most significant byte first.  x = num/den >= 0.  The values packed here *)
(* are zero or at least 2^-20, so the subnormal range is never entered.    *)
(***************************************************************************)
RECURSIVE Pow2(_)
Pow2(n) == IF n = 0 THEN 1 ELSE 2 * Pow2(n - 1)

\* the exponent e and the scaled pair <<n, d>> with 1 <= n/d < 2
RECURSIVE Normalise(_, _, _)
Normalise(n, d, e) ==
    IF n >= 2 * d THEN Normalise(n, 2 * d, e + 1)
    ELSE IF n < d THEN Normalise(2 * n, d, e - 1)
    ELSE <<n, d, e>>

\* the next `bits` quotient bits of r/d (r < d) after the mantissa m:
\* <<mantissa, remainder>>
RECURSIVE Divide(_, _, _, _)
Divide(r, d, m, bits) ==
    IF bits = 0 THEN <<m, r>>
    ELSE IF 2 * r >= d THEN Divide(2 * r - d, d, 2 * m + 1, bits - 1)
    ELSE Divide(2 * r, d, 2 * m, bits - 1)

Float32Bits(v) ==
    IF v[1] = 0 THEN 0
    ELSE LET nde == Normalise(v[1], v[2], 0)
             q == Divide(nde[1] - nde[2], nde[2], 0, 23)
             up == \/ 2 * q[2] > nde[2]
                   \/ (2 * q[2] = nde[2] /\ q[1] % 2 = 1)
             m == IF up THEN q[1] + 1 ELSE q[1]
         IN  IF m = Pow2(23)
             THEN (nde[3] + 1 + 127) * Pow2(23)
             ELSE (nde[3] + 127) * Pow2(23) + m

BigEndian(bits) ==
    <<bits \div Pow2(24), (bits \div Pow2(16)) % 256, (bits \div 256) % 256, bits % 256>>

LittleEndian(bits) ==
    <<bits % 256, (bits \div 256) % 256, (bits \div Pow2(16)) % 256, bits \div Pow2(24)>>

PackLittle(v) == LittleEndian(Float32Bits(v))

\* struct.pack('>f', float(intensity))
Pack(v) == BigEndian(Float32Bits(v))

(***************************************************************************)
(* The receiver's side of the wire format: 4 bytes, most significant       *)
(* first, read as an IEEE-754 single.  The result is <<sig, e>>, meaning   *)
(* sig * 2^e, with sig odd or zero.                                        *)
(***************************************************************************)
RECURSIVE OddPart(_, _)
OddPart(sig, e) ==
    IF sig = 0 THEN <<0, 0>>
    ELSE IF sig % 2 = 0 THEN OddPart(sig \div 2, e + 1)
    ELSE <<sig, e>>

Unpack(b) ==
    LET ex == (b[1] % 128) * 2 + b[2] \div 128
        mant == (b[2] % 128) * Pow2(16) + b[3] * 256 + b[4]
    IN  IF ex = 0 THEN OddPart(mant, 0 - 149)
        ELSE OddPart(Pow2(23) + mant, ex - 150)

\* sig * 2^e = num/den, for 0 <= num <= den < 128
SameValue(d, v) ==
    IF d[1] = 0 THEN v[1] = 0
    ELSE IF d[2] >= 0 THEN d[1] = 1 /\ d[2] = 0 /\ v[1] = v[2]
    ELSE 0 - d[2] <= 24 /\ d[1] * v[2] = v[1] * Pow2(0 - d[2])

(***************************************************************************)
(* main()                                                                  *)
(***************************************************************************)
IntervalSeconds == 1
IntervalTicks == IntervalSeconds * TicksPerSecond

\* if current_time - last_print_time >= 1.0
ShouldSendAlways(current_time, last) == TRUE

ShouldSend(current_time, last) == current_time - last >= IntervalTicks

\* cameras = capture.list_working_cameras(max_index=10)
MainStart ==
    /\ pc = "m_start"
    /\ i' = 0
    /\ working' = <<>>
    /\ pc' = "scan_loop"
    /\ stack' = Push(stack, "m_check")
    /\ probeOk' = {}
    /\ UNCHANGED <<max_index, start_index, handles, cameras, icsVars, camera_idx,
                   result, selected_camera, streamVars, outcome, pureVars,
                   nAdv, initCursor, lastEvent, previewed>>

\* if not cameras: return; otherwise
\* selected_camera = capture.interactive_camera_selection(10, 0, True)
MainCheck ==
    /\ pc = "m_check"
    /\ probeOk' = {}
    /\ IF IsEmpty(cameras)
       THEN /\ pc' = "done"
            /\ outcome' = "no_cameras"
            /\ UNCHANGED stack
       ELSE /\ pc' = "ics_start"
            /\ stack' = Push(stack, "m_selected")
            /\ UNCHANGED outcome
    /\ UNCHANGED <<max_index, start_index, scanVars, handles, cameras, icsVars,
                   camera_idx, result, selected_camera, streamVars, pureVars,
                   nAdv, initCursor, lastEvent, previewed>>

\* if selected_camera is not None: response = input(...); the final
\* preview when the answer is 'y'; else: "No camera selected"
MainSelected(response) ==
    /\ pc = "m_selected"
    /\ IF selected_camera = NoneVal
       THEN /\ pc' = "done"
            /\ outcome' = "no_selection"
            /\ UNCHANGED <<stack, camera_idx>>
       ELSE IF response = "y"
       THEN /\ camera_idx' = selected_camera
            /\ pc' = "slv_open"
            /\ stack' = Push(stack, "m_after_final")
            /\ UNCHANGED outcome
       ELSE /\ pc' = "m_connect"
            /\ UNCHANGED <<stack, camera_idx, outcome>>
    /\ UNCHANGED <<max_index, start_index, scanVars, handles, cameras, icsVars,
                   result, selected_camera, streamVars, pureVars, histVars>>

\* back from the final preview: its result is dropped
MainAfterFinal ==
    /\ pc = "m_after_final"
    /\ camera_idx' = Unset
    /\ result' = "none"
    /\ pc' = "m_connect"
    /\ UNCHANGED <<stack, max_index, start_index, scanVars, handles, cameras,
                   icsVars, selected_camera, streamVars, outcome, pureVars,
                   histVars>>

\* with socket.create_connection(...) as s: the generator object is made
\* (its body does not run yet) and last_print_time = time.time()
MainConnect(ok) ==
    /\ pc = "m_connect"
    /\ IF ok
       THEN /\ conn' = "open"
            /\ gen' = "created"
            /\ last_print_time' = now
            /\ t0' = now
            /\ pc' = "m_pull"
            /\ UNCHANGED outcome
       ELSE /\ outcome' = "connect_failed"
            /\ pc' = "m_completed"
            /\ UNCHANGED <<conn, gen, last_print_time, t0>>
    /\ UNCHANGED <<stack, max_index, start_index, scanVars, handles, cameras,
                   icsVars, camera_idx, result, selected_camera, intensity, now,
                   bytesSent, payload, pureVars, histVars>>

\* how the generator ends on a failure: raise RuntimeError when the open
\* fails, break (the for loop of main just ends) when a read fails
GenExitAlwaysEnds(cause) == "ended"

GenExit(cause) == IF cause = "open" THEN "open_failed" ELSE "ended"

\* the outcomes main reports with "Error during processing"
ErrorOutcomes == {"connect_failed", "open_failed", "write_failed"}

\* first next(): cap = capture.open_camera(camera_idx); RuntimeError when
\* it fails, which leaves the with block and is caught by except Exception
GenOpen(ok) ==
    /\ pc = "m_pull"
    /\ gen = "created"
    /\ IF ok
       THEN /\ handles' = OpenHandle(handles, "sampling", selected_camera)
            /\ gen' = "running"
            /\ UNCHANGED <<pc, conn, outcome>>
       ELSE /\ gen' = "finished"
            /\ conn' = "closed"
            /\ outcome' = GenExit("open")
            /\ pc' = "m_completed"
            /\ UNCHANGED handles
    /\ UNCHANGED <<stack, max_index, start_index, scanVars, cameras, icsVars,
                   camera_idx, result, selected_camera, intensity, now,
                   last_print_time, bytesSent, payload, t0, pureVars, histVars>>

\* next(): ok, frame = read_frame(cap); break and the finally clause when
\* the read fails, which ends the for loop and the with block; otherwise
\* yield avg_intensity
GenRead(ok, f) ==
    /\ pc = "m_pull"
    /\ gen \in {"running", "suspended"}
    /\ IF ok
       THEN /\ intensity' = Brightness(f)
            /\ gen' = "suspended"
            /\ pc' = "m_body"
            /\ UNCHANGED <<handles, conn, outcome>>
       ELSE /\ handles' = ReleaseHandle(handles, "sampling", selected_camera)
            /\ gen' = "finished"
            /\ conn' = "closed"
            /\ outcome' = GenExit("read")
            /\ pc' = "m_completed"
            /\ UNCHANGED intensity
    /\ UNCHANGED <<stack, max_index, start_index, scanVars, cameras, icsVars,
                   camera_idx, result, selected_camera, now, last_print_time,
                   bytesSent, payload, t0, pureVars, histVars>>

\* where main goes after s.sendall: the next pull, or out of the try block
\* when sendall raised (nothing catches it inside the loop)
AfterWriteRetry(ok) == "m_pull"

AfterWrite(ok) == IF ok THEN "m_pull" ELSE "m_completed"

\* body of the for loop: current_time = time.time(); the throttle; pack and
\* sendall.  A failed sendall raises OSError: the with block closes the
\* socket and except Exception catches it; the generator stays suspended.
MainBody(ok) ==
    /\ pc = "m_body"
    /\ IF ShouldSend(now, last_print_time)
       THEN IF ok
            THEN /\ payload' = Pack(intensity)
                 /\ bytesSent' = bytesSent + Len(Pack(intensity))
                 /\ last_print_time' = now
                 /\ pc' = AfterWrite(TRUE)
                 /\ UNCHANGED <<conn, outcome>>
            ELSE /\ conn' = "closed"
                 /\ outcome' = "write_failed"
                 /\ pc' = AfterWrite(FALSE)
                 /\ UNCHANGED <<payload, bytesSent, last_print_time>>
       ELSE /\ ok
            /\ pc' = "m_pull"
            /\ UNCHANGED <<payload, bytesSent, last_print_time, conn, outcome>>
    /\ UNCHANGED <<stack, max_index, start_index, scanVars, handles, cameras,
                   icsVars, camera_idx, result, selected_camera, gen, intensity,
                   now, t0, pureVars, histVars>>

\* the wall clock advances while the stream runs
Tick ==
    /\ pc \in {"m_pull", "m_body"}
    /\ now < MaxTime
    /\ now' = now + 1
    /\ UNCHANGED <<pc, stack, max_index, start_index, scanVars, handles, cameras,
                   icsVars, camera_idx, result, selected_camera, conn, gen,
                   intensity, last_print_time, bytesSent, payload, t0, outcome,
                   pureVars, histVars>>

\* Ctrl+C inside the try block.  Raised while the generator runs (inside),
\* it passes through the generator's finally clause; raised in the loop
\* body of main, it leaves the generator suspended.  The with block closes
\* the socket and except KeyboardInterrupt catches it.  Between the open
\* and the first read only the generator runs.
Interrupt(inside) ==
    /\ pc \in {"m_pull", "m_body"}
    /\ inside => pc = "m_pull"
    /\ gen = "running" => inside
    /\ IF inside
       THEN /\ gen' = "finished"
            /\ handles' = IF gen \in {"running", "suspended"}
                          THEN ReleaseHandle(handles, "sampling", selected_camera)
                          ELSE handles
       ELSE UNCHANGED <<gen, handles>>
    /\ conn' = "closed"
    /\ outcome' = "interrupted"
    /\ pc' = "m_completed"
    /\ UNCHANGED <<stack, max_index, start_index, scanVars, cameras, icsVars,
                   camera_idx, result, selected_camera, intensity, now,
                   last_print_time, bytesSent, payload, t0, pureVars, histVars>>

\* print("... processing completed."), then main returns: its locals go
\* away, and a generator that is still suspended is closed, which runs its
\* finally clause
MainReturn ==
    /\ pc = "m_completed"
    /\ pc' = "done"
    /\ IF gen = "suspended"
       THEN /\ gen' = "finished"
            /\ handles' = ReleaseHandle(handles, "sampling", selected_camera)
       ELSE UNCHANGED <<gen, handles>>
    /\ UNCHANGED <<stack, max_index, start_index, scanVars, cameras, icsVars,
                   camera_idx, result, selected_camera, conn, intensity, now,
                   last_print_time, bytesSent, payload, t0, outcome, pureVars,
                   histVars>>

(***************************************************************************)
(* bright_or_dark_single_frame(frame), called on its own                   *)
(***************************************************************************)
BrightSingleFrame ==
    /\ pc = "bright_call"
    /\ intensity' = Brightness(frame)
    /\ pc' = "bright_done"
    /\ UNCHANGED <<stack, max_index, start_index, scanVars, handles, cameras,
                   icsVars, camera_idx, result, selected_camera, conn, gen, now,
                   last_print_time, bytesSent, payload, t0, outcome, pureVars,
                   histVars>>

(***************************************************************************)
(* One sample on the wire: the sender packs and writes it (main.py and     *)
(* TCP_client.py do the same), the receiver decodes what it got.           *)
(***************************************************************************)
WireDens == {1, 2, 3, 4, 5, 8, 16, 32, 64}
WireValues == UNION {{<<n, d>> : n \in 0..d} : d \in WireDens}

\* payload = struct.pack(">f", v); s.sendall(payload)
WireSend ==
    /\ pc = "wire_encode"
    /\ payload' = Pack(intensity)
    /\ bytesSent' = bytesSent + Len(Pack(intensity))
    /\ pc' = "wire_sent"
    /\ UNCHANGED <<stack, max_index, start_index, scanVars, handles, cameras,
                   icsVars, camera_idx, result, selected_camera, conn, gen,
                   intensity, now, last_print_time, t0, outcome, pureVars,
                   histVars>>

WireReceive ==
    /\ pc = "wire_sent"
    /\ decoded' = Unpack(payload)
    /\ pc' = "wire_received"
    /\ UNCHANGED <<stack, max_index, start_index, scanVars, handles, cameras,
                   icsVars, camera_idx, result, selected_camera, streamVars,
                   outcome, frame, histVars>>

(***************************************************************************)
(* Specifications                                                          *)
(***************************************************************************)
Idle ==
    /\ stack = <<>>
    /\ i = Unset
    /\ working = <<>>
    /\ handles = <<>>
    /\ cameras = <<>>
    /\ cams = <<>>
    /\ available_indices = <<>>
    /\ current_idx = Unset
    /\ camera_idx = Unset
    /\ result = "none"
    /\ selected_camera = Unset
    /\ conn = "none"
    /\ gen = "none"
    /\ now = 0
    /\ last_print_time = 0
    /\ bytesSent = 0
    /\ payload = <<>>
    /\ outcome = "running"
    /\ decoded = <<0, 0>>
    /\ nAdv = 0
    /\ initCursor = Unset
    /\ lastEvent = "none"
    /\ previewed = <<>>
    /\ probeOk = {}
    /\ t0 = 0

\* python main.py, or a call of capture.interactive_camera_selection
Init ==
    /\ Idle
    /\ frame = <<>>
    /\ intensity = <<0, 1>>
    /\ \/ /\ pc = "m_start"
          /\ max_index = MainMaxIndex
          /\ start_index = 0
       \/ /\ pc = "ics_start"
          /\ max_index \in 0..MaxIndex
          /\ start_index \in 0..MaxIndex

Next ==
    \/ MainStart
    \/ MainCheck
    \/ \E response \in {"y", "n"} : MainSelected(response)
    \/ MainAfterFinal
    \/ \E ok \in BOOLEAN : MainConnect(ok)
    \/ \E ok \in BOOLEAN : GenOpen(ok)
    \/ \E ok \in BOOLEAN, f \in CameraFrames : GenRead(ok, f)
    \/ \E ok \in BOOLEAN : MainBody(ok)
    \/ Tick
    \/ \E inside \in BOOLEAN : Interrupt(inside)
    \/ MainReturn
    \/ \E ok \in BOOLEAN : ScanOpen(ok)
    \/ \E ok \in BOOLEAN, rep \in Reports : ScanRead(ok, rep)
    \/ ScanRelease
    \/ ScanReturn
    \/ IcsStart
    \/ IcsCheck
    \/ IcsLoop
    \/ IcsResult
    \/ \E ok \in BOOLEAN : SlvOpen(ok)
    \/ \E ok \in BOOLEAN, raw \in RawKeys : SlvFrame(ok, raw)

Spec == Init /\ [][Next]_vars

InitBright ==
    /\ Idle
    /\ pc = "bright_call"
    /\ max_index = 0
    /\ start_index = 0
    /\ frame \in FramesUpTo(MaxPixels)
    /\ intensity = <<0, 1>>

NextBright == BrightSingleFrame

SpecBright == InitBright /\ [][NextBright]_vars

InitWire ==
    /\ Idle
    /\ pc = "wire_encode"
    /\ max_index = 0
    /\ start_index = 0
    /\ frame = <<>>
    /\ intensity \in WireValues

NextWire == WireSend \/ WireReceive

SpecWire == InitWire /\ [][NextWire]_vars

(***************************************************************************)
(* Properties                                                              *)
(***************************************************************************)
StrictlyIncreasing(s) == \A k \in 1..(Len(s) - 1) : s[k] < s[k + 1]

Last(s) == s[Len(s)]

\* the scan has just returned and its caller has not looked at the result
ScanReturned == pc \in {"m_check", "ics_check"}
ScanResult == IF pc = "m_check" THEN cameras ELSE cams
Scanning == pc \in {"scan_loop", "scan_read", "scan_release"}

\* C1: the indices list_working_cameras returns are strictly increasing, lie
\* in 0..max_index-1 and are exactly the indices whose open and single read
\* both succeeded; a failed open or read only skips the index (the list
\* built so far obeys the same law at every point of the scan).
C1_ScanIndices ==
    /\ ScanReturned =>
          /\ StrictlyIncreasing(Indices(ScanResult))
          /\ Range(Indices(ScanResult)) \subseteq 0..(max_index - 1)
          /\ Range(Indices(ScanResult)) = probeOk
    /\ Scanning =>
          /\ StrictlyIncreasing(Indices(working))
          /\ Range(Indices(working)) = probeOk
          /\ probeOk \subseteq 0..i
          /\ i \in 0..max_index

\* a scan that skipped index 0 (open or read failed) and index 2 and kept 1 and 3
C1_Witness ==
    /\ pc = "ics_check"
    /\ max_index = 4
    /\ Indices(cams) = <<1, 3>>

\* C2: every descriptor list_working_cameras returns has width > 0,
\* height > 0 and frameRate > 0, whatever the device reports.
C2_DescriptorsPositive ==
    ScanReturned =>
        \A k \in 1..Len(ScanResult) :
            /\ ScanResult[k][2] > 0
            /\ ScanResult[k][3] > 0
            /\ ScanResult[k][4] > 0

\* C3: while the selection previews a device, that device is
\* candidates[(initialCursor + advances) mod len(candidates)] and the cursor
\* is within 0..len(candidates)-1.
C3_CursorLaw ==
    InSelection =>
        /\ current_idx \in 0..(Len(available_indices) - 1)
        /\ current_idx = (initCursor + nAdv) % Len(available_indices)
        /\ camera_idx = available_indices[((initCursor + nAdv) % Len(available_indices)) + 1]

\* three advances over two candidates: the cursor has wrapped
C3_Witness ==
    /\ InSelection
    /\ pc = "slv_loop"
    /\ Len(available_indices) = 2
    /\ initCursor = 1
    /\ nAdv = 3
    /\ camera_idx = available_indices[1]

\* the device the selection starts with
Preferred ==
    IF start_index \in Range(available_indices)
    THEN start_index ELSE available_indices[1]

\* C4: the selection starts at start_index when that index is a candidate and
\* at the first candidate otherwise; with candidates [1, 3] and
\* start_index = 3 the first previewed device is 3, one advance previews 1
\* and a confirm then yields 1.
C4_StartsAtPreferred ==
    /\ (InSelection /\ nAdv = 0) =>
          /\ camera_idx = Preferred
          /\ previewed # <<>> => previewed = <<Preferred>>
    /\ (InSelection /\ available_indices = <<1, 3>> /\ start_index = 3) =>
          /\ nAdv = 0 => camera_idx = 3
          /\ nAdv = 1 => camera_idx = 1
    /\ (/\ selected_camera # Unset
        /\ start_index = 3
        /\ previewed = <<3, 1>>
        /\ lastEvent = "confirm") => selected_camera = 1

\* the scenario's end: started at 3, advanced to 1, confirmed
C4_Witness ==
    /\ pc = "returned"
    /\ start_index = 3
    /\ previewed = <<3, 1>>
    /\ nAdv = 1
    /\ lastEvent = "confirm"
    /\ selected_camera = 1

\* interactive_camera_selection has returned
SelectionOver == selected_camera # Unset

SelectHandles == {k \in 1..Len(handles) : handles[k][1] = "select"}

C5_State ==
    /\ lastEvent = "confirm" =>
          \/ /\ pc = "ics_result"
             /\ result = "select"
             /\ camera_idx = Last(previewed)
          \/ /\ SelectionOver
             /\ selected_camera = Last(previewed)
    /\ lastEvent = "quit" =>
          \/ /\ pc = "ics_result"
             /\ result = "quit"
          \/ /\ SelectionOver
             /\ selected_camera = NoneVal
    /\ SelectionOver =>
          /\ ~InSelection
          /\ pc \notin {"ics_start", "ics_check", "ics_loop", "ics_result"}
          /\ SelectHandles = {}

\* C5: a confirm ends the selection in Selected with the index of the device
\* previewed at that moment, a quit ends it in Quit with no selection, and
\* once the selection is over it opens no further preview and its result
\* does not change, whatever keys arrive later.
C5_Terminal ==
    [][/\ C5_State'
       /\ (pc = "ics_result" /\ result = "select") =>
              (SelectionOver' /\ selected_camera' = camera_idx)
       /\ (pc = "ics_result" /\ result = "quit") =>
              (SelectionOver' /\ selected_camera' = NoneVal)
       /\ SelectionOver =>
              /\ selected_camera' = selected_camera
              /\ previewed' = previewed
              /\ lastEvent' = lastEvent]_vars

\* a confirm after at least one advance, and main is past the selection
C5_Witness ==
    /\ lastEvent = "confirm"
    /\ nAdv >= 1
    /\ selected_camera = Last(previewed)
    /\ pc = "slv_loop"
    /\ Previewer = "final"

\* the send loop is running
Streaming == pc \in {"m_pull", "m_body"}

\* whole intervals since the send loop started
IntervalsElapsed == (now - t0) \div IntervalTicks

\* C6, as stated: at any moment of the send loop the bytes written are
\* 4 * floor(D / T), give or take one sample, whatever the pull rate.
C6_ThrottleLaw ==
    Streaming =>
        /\ bytesSent >= SampleBytes * (IntervalsElapsed - 1)
        /\ bytesSent <= SampleBytes * (IntervalsElapsed + 1)

\* C6, amended: the bytes written are a whole number of 4-byte samples and
\* never more than 4 * floor(D / T).
C6_UpperBound ==
    /\ bytesSent % SampleBytes = 0
    /\ bytesSent <= SampleBytes * IntervalsElapsed

\* two samples sent in exactly two intervals: the bound is met
C6_Witness ==
    /\ Streaming
    /\ now - t0 = 2 * IntervalTicks
    /\ bytesSent = 2 * SampleBytes

IsUniform(f, c) == \A k \in 1..Len(f) : f[k] = <<c, c, c>>

\* C7: the brightness is the mean of the luminance pixels divided by 255,
\* lies in [0, 1], and is 128/255 for a uniform mid-gray frame, 0 for a
\* black frame and 1 for a white frame.
C7_Brightness ==
    pc = "bright_done" =>
        /\ intensity[2] > 0
        /\ intensity[1] * Len(frame) * ChannelMax = SumGray(frame) * intensity[2]
        /\ 0 <= intensity[1]
        /\ intensity[1] <= intensity[2]
        /\ IsUniform(frame, 128) => intensity[1] * ChannelMax = 128 * intensity[2]
        /\ IsUniform(frame, 0) => intensity[1] = 0
        /\ IsUniform(frame, ChannelMax) => intensity[1] = intensity[2]

\* a two-pixel mid-gray frame reduced to 128/255
C7_Witness ==
    /\ pc = "bright_done"
    /\ Len(frame) = 2
    /\ IsUniform(frame, 128)
    /\ intensity[1] * ChannelMax = 128 * intensity[2]

\* v = n/d
Is(v, n, d) == v[1] * d = n * v[2]

QuarterSteps == {v \in WireValues : \E n \in 0..4 : Is(v, n, 4)}

C9_NoDevices ==
    [][/\ (ScanReturned' /\ probeOk' = {}) => ScanResult' = <<>>
       /\ (pc = "ics_check" /\ cams = <<>>) =>
              /\ selected_camera' = NoneVal
              /\ pc' \in {"returned", "m_selected"}
              /\ previewed' = <<>>
              /\ handles' = <<>>
       /\ (pc = "m_check" /\ cameras = <<>>) =>
              /\ pc' = "done"
              /\ outcome' = "no_cameras"
       /\ (pc = "m_selected" /\ selected_camera = NoneVal) => pc' = "done"
       /\ outcome' \in {"no_cameras", "no_selection"} =>
              /\ pc' = "done"
              /\ conn' = "none"
              /\ bytesSent' = 0
              /\ handles' = <<>>]_vars

\* main found no camera at all and stopped
C9_Witness ==
    /\ pc = "done"
    /\ outcome = "no_cameras"
    /\ cameras = <<>>
    /\ conn = "none"

\* C10: at most one capture handle is open at any time, and a handle is
\* only opened when none is open.
C10_OneHandle ==
    [][/\ Len(handles') <= 1
       /\ Len(handles') > Len(handles) => handles = <<>>]_vars

\* the sampling stage holds the only handle, after a selection that
\* advanced at least once
C10_Witness ==
    /\ Len(handles) = 1
    /\ handles[1][1] = "sampling"
    /\ Len(previewed) >= 2

\* the step in which the selection's preview returns 'select'
ConfirmStep ==
    /\ InSelection
    /\ pc = "slv_loop"
    /\ pc' = "ics_result"
    /\ result' = "select"

\* the step in which the sampling generator opens the device
SamplingOpens == gen = "created" /\ gen' = "running"

\* C11, as stated: on a confirm the handle of the previewed device is not
\* released; it stays open across the return of the selection and the
\* sampling stage uses that handle instead of opening the device again.
C11_HandleRetained ==
    [][/\ ConfirmStep => (handles' = handles /\ handles' # <<>>)
       /\ SamplingOpens => handles' = handles]_vars

\* C11, amended: on a confirm the preview releases its handle before it
\* returns, so no handle of the selection is open once the confirm was seen;
\* only the index is handed over, and the sampling stage opens the selected
\* device again with a handle of its own while no other handle is open.
C11_ReleasedThenReopened ==
    [][/\ ConfirmStep =>
              /\ handles = <<<<"select", camera_idx>>>>
              /\ handles' = <<>>
       /\ lastEvent' = "confirm" => SelectHandles' = {}
       /\ SamplingOpens =>
              /\ handles = <<>>
              /\ handles' = <<<<"sampling", selected_camera>>>>
              /\ lastEvent = "confirm"
              /\ selected_camera = Last(previewed)]_vars

\* the sampling stage streams from the confirmed device on its own handle
C11_Witness ==
    /\ lastEvent = "confirm"
    /\ gen = "suspended"
    /\ handles = <<<<"sampling", Last(previewed)>>>>
    /\ bytesSent > 0

ScanHandles == {k \in 1..Len(handles) : handles[k][1] = "scan"}

\* C12: the scan never leaves a device open.  A handle of the scan exists
\* only inside the loop body of the index it was opened for; the end of the
\* loop body releases it whether the open failed, the read failed or both
\* succeeded, so no handle is open when the next index is probed or when
\* the scan has returned.
C12_ScanReleases ==
    [][/\ \A k \in ScanHandles' :
              /\ pc' \in {"scan_read", "scan_release"}
              /\ handles'[k][2] = i'
       /\ pc' = "scan_loop" => handles' = <<>>
       /\ ScanReturned' => handles' = <<>>
       /\ pc = "scan_release" =>
              /\ handles' = <<>>
              /\ pc' = "scan_loop"
              /\ i' = i + 1]_vars

\* indices 0 and 2 failed at the open or at the read, index 1 worked: the
\* scan is about to probe index 3 with nothing open
C12_Witness ==
    /\ pc = "scan_loop"
    /\ i = 3
    /\ probeOk = {1}
    /\ Indices(working) = <<1>>
    /\ handles = <<>>

\* the selection has returned None
NoSelection == SelectionOver /\ selected_camera = NoneVal

\* C13: while the selection previews a device, a failed frame read releases
\* that device's handle and show_live_view returns 'error'; the selection
\* then returns None, as for a quit, without previewing that device again
\* and without opening another candidate.
C13_ReadFailureQuits ==
    [][/\ (InSelection /\ pc = "slv_loop" /\ result' = "error") =>
              /\ handles = <<<<"select", camera_idx>>>>
              /\ handles' = <<>>
              /\ pc' = "ics_result"
              /\ lastEvent' = "error"
       /\ (pc = "ics_result" /\ result = "error") =>
              /\ NoSelection'
              /\ pc' \in {"returned", "m_selected"}
              /\ previewed' = previewed
              /\ handles' = <<>>
       /\ lastEvent' = "error" =>
              /\ handles' = <<>>
              /\ previewed' # <<>>
              /\ (pc' = "ics_result" /\ result' = "error") \/ NoSelection'
              /\ pc' \notin {"ics_loop", "slv_open", "slv_loop"}]_vars

\* the second previewed device failed to deliver a frame, and the
\* selection returned None to its caller
C13_Witness ==
    /\ lastEvent = "error"
    /\ pc = "returned"
    /\ NoSelection
    /\ Len(previewed) = 2
    /\ nAdv = 1
    /\ handles = <<>>

\* a pass of the loop body of main that ran to its end: the sample was
\* sent or dropped
BodyStep == pc = "m_body" /\ pc' = "m_pull"

\* a step that wrote a sample to the connection
SendStep == bytesSent' # bytesSent

\* C14: last_print_time starts as the time the send loop begins; a pulled
\* sample is written exactly when current time - last_print_time >= the
\* interval, and then last_print_time becomes the current time; otherwise
\* the sample is dropped and last_print_time stays.  What is written is
\* always the sample just pulled.  So nothing is sent less than one
\* interval after the start, and two sends in a row are at least one
\* interval apart.
C14_SendRule ==
    [][/\ (pc = "m_connect" /\ pc' = "m_pull") =>
              /\ last_print_time' = now
              /\ t0' = now
              /\ bytesSent' = 0
       /\ SendStep =>
              /\ BodyStep
              /\ now - last_print_time >= IntervalTicks
              /\ now - t0 >= IntervalTicks
              /\ last_print_time' = now
              /\ payload' = Pack(intensity)
              /\ bytesSent' = bytesSent + SampleBytes
       /\ (BodyStep /\ now - last_print_time >= IntervalTicks) => SendStep
       /\ (BodyStep /\ now - last_print_time < IntervalTicks) =>
              /\ ~SendStep
              /\ payload' = payload
              /\ last_print_time' = last_print_time
       /\ last_print_time' # last_print_time =>
              (SendStep \/ pc = "m_connect")
       /\ Streaming' =>
              /\ t0' <= last_print_time'
              /\ last_print_time' <= now'
              /\ bytesSent' = 0 => last_print_time' = t0'
              /\ bytesSent' > 0 => last_print_time' - t0' >= IntervalTicks]_vars

\* two samples were sent, the second exactly one interval after the first,
\* and a later sample is being dropped
C14_Witness ==
    /\ pc = "m_body"
    /\ bytesSent = 2 * SampleBytes
    /\ last_print_time - t0 = 2 * IntervalTicks
    /\ now - last_print_time = IntervalTicks - 1

SamplingHandles == {k \in 1..Len(handles) : handles[k][1] = "sampling"}

\* the try block of main is over: main is at its last print or has returned
StreamingOver == pc \in {"m_completed", "done"} /\ outcome # "no_cameras"

\* C15, as stated: once bright_or_dark has opened the device it releases
\* the handle on every exit path (a failed read, a consumer that stops
\* pulling after a failed write or an interrupt), so no handle of the
\* sampling stage is open once the streaming phase of main has finished.
C15_ReleasedWhenStreamingEnds ==
    StreamingOver => SamplingHandles = {}

\* the generator ends without having been interrupted
GenEnds == gen # "finished" /\ gen' = "finished" /\ outcome' # "interrupted"

\* C16: in bright_or_dark a failed read ends the generator normally: the
\* for loop of main sees the end of the stream, no error is reported, and
\* the finished generator yields no further sample.  A failed open on the
\* first pull raises instead, before any sample was produced or sent.
C16_EndOrFailFast ==
    [][/\ (GenEnds /\ pc = "m_pull" /\ gen \in {"running", "suspended"}) =>
              /\ outcome' = "ended"
              /\ outcome' \notin ErrorOutcomes
              /\ handles' = <<>>
              /\ intensity' = intensity
       /\ (GenEnds /\ gen = "created") =>
              /\ outcome' = "open_failed"
              /\ outcome' \in ErrorOutcomes
              /\ handles = <<>> /\ handles' = <<>>
              /\ intensity' = intensity
              /\ bytesSent' = 0
              /\ pc' = "m_completed"
       /\ gen = "finished" =>
              /\ gen' = "finished"
              /\ intensity' = intensity
              /\ pc' # "m_body"
              /\ bytesSent' = bytesSent
       /\ gen' = "created" => (intensity' = <<0, 1>> /\ bytesSent' = 0)
       /\ pc' = "m_body" /\ pc # "m_body" => gen' = "suspended"]_vars

\* a stream that produced and sent samples and then ended on a failed read
C16_Witness ==
    /\ outcome = "ended"
    /\ gen = "finished"
    /\ bytesSent = 2 * SampleBytes
    /\ handles = <<>>

\* the step in which s.sendall raises
WriteFails == pc = "m_body" /\ outcome' = "write_failed"

\* C17: a failed write ends the streaming run.  The exception leaves the
\* loop and the with block at once (the connection is closed and main goes
\* to its last print), and afterwards nothing is written or connected
\* again, no sample is pulled, and the failed sample is not kept for later.
C17_WriteFailureFatal ==
    [][/\ WriteFails =>
              /\ ShouldSend(now, last_print_time)
              /\ conn = "open" /\ conn' = "closed"
              /\ pc' = "m_completed"
              /\ bytesSent' = bytesSent
              /\ payload' = payload
       /\ outcome = "write_failed" =>
              /\ outcome' = "write_failed"
              /\ conn' = "closed"
              /\ bytesSent' = bytesSent
              /\ payload' = payload
              /\ intensity' = intensity
              /\ pc' \in {"m_completed", "done"}
              /\ gen' \in {"suspended", "finished"}]_vars

\* the second send failed: one sample had been written, main has returned
C17_Witness ==
    /\ outcome = "write_failed"
    /\ pc = "done"
    /\ conn = "closed"
    /\ bytesSent = SampleBytes
    /\ last_print_time - t0 = IntervalTicks
    /\ now - last_print_time >= IntervalTicks

\* C18, as stated: a device failure while the selection previews is never
\* swallowed; what the caller of the selection gets differs from what it
\* gets after a quit (None, by C5), and main does not report it as a plain
\* "no camera selected".
C18_FailuresSurfaced ==
    (SelectionOver /\ lastEvent \in {"error", "open_error"}) =>
        /\ selected_camera # NoneVal
        /\ outcome # "no_selection"

\* C19, as stated: a quit in the selection and an interrupt during
\* streaming are clean stops, and the device handle and the connection
\* held at that moment are released before control leaves the phase.
C19_OrderlyCancel ==
    /\ lastEvent = "quit" => SelectHandles = {}
    /\ (lastEvent = "quit" /\ SelectionOver) => selected_camera = NoneVal
    /\ outcome = "interrupted" =>
          /\ outcome \notin ErrorOutcomes
          /\ conn = "closed"
          /\ handles = <<>>

\* the step in which the preview of the selection fails to open its device
PreviewOpenFails ==
    /\ InSelection
    /\ pc = "slv_open"
    /\ pc' = "ics_result"

\* C20: a candidate that passed the scan and cannot be opened when it
\* becomes the previewed device, at the start or after an advance, ends
\* the selection with None, as a quit does; the selection does not go on
\* to the next candidate, and no handle is left open.
C20_OpenFailureQuits ==
    [][/\ PreviewOpenFails =>
              /\ camera_idx \in Range(Indices(cams))
              /\ result' = "error"
              /\ lastEvent' = "open_error"
              /\ handles = <<>> /\ handles' = <<>>
              /\ previewed' = previewed
       /\ lastEvent' = "open_error" =>
              /\ handles' = <<>>
              /\ (pc' = "ics_result" /\ result' = "error") \/ NoSelection'
              /\ pc' \notin {"ics_loop", "slv_open", "slv_loop"}
              /\ Len(previewed') = nAdv']_vars

\* the first candidate was previewed, the operator advanced, the second
\* candidate could not be opened, and the selection returned None
C20_Witness ==
    /\ lastEvent = "open_error"
    /\ pc = "returned"
    /\ NoSelection
    /\ nAdv = 1
    /\ Len(previewed) = 1
    /\ handles = <<>>
====
